---- MODULE Spec2Model ----
(***************************************************************************)
(* Model of waste_analysis.py: the scalar normalizers (convert_year,       *)
(* clean_num), the four per-city extractors (load_kanazawa, load_sakai,    *)
(* load_toyama, load_chiba) and the metric derivation of main().           *)
(*                                                                         *)
(* Text is a sequence of one-character strings.  The Japanese characters   *)
(* are written with ASCII names: "hei" "sei" (Heisei marker), "rei" "wa"   *)
(* (Reiwa marker), "nen" (year suffix), "gan" (first-year token), "dash"   *)
(* (the full-width placeholder dash) and "sup2" (superscript two, a        *)
(* character for which str.isdigit() is true and int() fails).             *)
(*                                                                         *)
(* A float is NaN, Inf(sign) or an exact rational Fin(n, d); rounding of   *)
(* binary floating point is not modelled.                                  *)
(***************************************************************************)
EXTENDS Integers, Sequences, FiniteSets, TLC

VARIABLES
    pc,           \* position of main(): which statement runs next
    present,      \* the cities whose input file exists (os.path.exists)
    df,           \* city -> the raw table read for it (NoTable before)
    records,      \* the list returned by the extractor called last
    all_records,  \* main(): all_records
    summary,      \* main(): the data frame with the three derived columns
    year_in,      \* argument of a convert_year call under test
    year_out      \* its outcome (Pending before the call)

vars == <<pc, present, df, records, all_records, summary, year_in, year_out>>

(***************************************************************************)
(* Bounds of the model.                                                    *)
(***************************************************************************)
MaxLen == 4       \* longest year text enumerated for convert_year
MaxCols == 2      \* year columns per axis (Kanazawa), cost columns (Sakai)
MaxWasteCols == 1 \* year columns of the waste axis (Sakai)
MaxRows == 2      \* data rows (Toyama)
MaxMarkers == 2   \* year markers (Chiba)

(***************************************************************************)
(* Floats.                                                                 *)
(***************************************************************************)
RECURSIVE Gcd(_, _)
Gcd(a, b) == IF b = 0 THEN a ELSE Gcd(b, a % b)

Abs(n) == IF n < 0 THEN -n ELSE n

NaN == [t |-> "nan"]
Inf(s) == [t |-> "inf", s |-> s]
Fin(n, d) ==
    LET g == Gcd(Abs(n), d)
    IN  [t |-> "fin", n |-> n \div g, d |-> d \div g]
Num(n) == Fin(n, 1)

IsNaN(x) == x.t = "nan"
IsFin(x) == x.t = "fin"
Sign(x) ==
    IF x.t = "inf" THEN x.s
    ELSE IF x.n > 0 THEN 1 ELSE IF x.n < 0 THEN -1 ELSE 0

\* IEEE multiplication: nan propagates, 0 * inf = nan.
FMul(x, y) ==
    IF IsNaN(x) \/ IsNaN(y) THEN NaN
    ELSE IF IsFin(x) /\ IsFin(y) THEN Fin(x.n * y.n, x.d * y.d)
    ELSE IF Sign(x) * Sign(y) = 0 THEN NaN
    ELSE Inf(Sign(x) * Sign(y))

\* IEEE addition: nan propagates, inf + (-inf) = nan.
FAdd(x, y) ==
    IF IsNaN(x) \/ IsNaN(y) THEN NaN
    ELSE IF IsFin(x) /\ IsFin(y) THEN Fin(x.n * y.d + y.n * x.d, x.d * y.d)
    ELSE IF IsFin(x) THEN y
    ELSE IF IsFin(y) THEN x
    ELSE IF x.s = y.s THEN x ELSE NaN

\* x > 0 as Python and numpy compare floats: False for nan.
FPos(x) == ~IsNaN(x) /\ Sign(x) > 0

\* Division of numpy / pandas float columns: x / 0 is +-inf, 0 / 0 is nan,
\* nothing raises.
NpDiv(x, y) ==
    IF IsNaN(x) \/ IsNaN(y) THEN NaN
    ELSE IF IsFin(y) /\ y.n = 0 THEN
        (IF Sign(x) = 0 THEN NaN ELSE Inf(Sign(x)))
    ELSE IF ~IsFin(y) THEN
        (IF IsFin(x) THEN Num(0) ELSE NaN)
    ELSE IF ~IsFin(x) THEN Inf(Sign(x) * Sign(y))
    ELSE IF y.n > 0 THEN Fin(x.n * y.d, x.d * y.n)
    ELSE Fin(-(x.n * y.d), x.d * (-y.n))

(***************************************************************************)
(* Raw cells, as the extractors receive them from the parsed table.        *)
(***************************************************************************)
NaNCell == [k |-> "nan"]
StrCell(s) == [k |-> "str", s |-> s]
IntCell(n) == [k |-> "int", v |-> n]
FloatCell(x) == [k |-> "float", v |-> x]

\* pd.isna on a scalar cell: the missing marker or a float nan.
IsNaCell(c) == c.k = "nan" \/ (c.k = "float" /\ IsNaN(c.v))

(***************************************************************************)
(* Text helpers: str.strip, str.lower, str.startswith, str.replace(p, ''), *)
(* str.isdigit and int(str).                                               *)
(***************************************************************************)
Heisei == <<"hei", "sei">>
Reiwa == <<"rei", "wa">>
Nen == <<"nen">>
Gan == <<"gan">>

IsSpace(c) == c = " "

RECURSIVE LStrip(_)
LStrip(s) ==
    IF s = <<>> THEN s
    ELSE IF IsSpace(Head(s)) THEN LStrip(Tail(s)) ELSE s

RECURSIVE RStrip(_)
RStrip(s) ==
    IF s = <<>> THEN s
    ELSE IF IsSpace(s[Len(s)]) THEN RStrip(SubSeq(s, 1, Len(s) - 1)) ELSE s

Strip(s) == RStrip(LStrip(s))

LowerChar(c) == IF c = "N" THEN "n" ELSE IF c = "A" THEN "a" ELSE c
Lower(s) == [i \in 1..Len(s) |-> LowerChar(s[i])]

StartsWith(s, p) == Len(s) >= Len(p) /\ SubSeq(s, 1, Len(p)) = p

\* s.replace(p, ''): every non-overlapping occurrence, left to right.
RECURSIVE Replace(_, _)
Replace(s, p) ==
    IF s = <<>> THEN s
    ELSE IF StartsWith(s, p) THEN Replace(SubSeq(s, Len(p) + 1, Len(s)), p)
    ELSE <<Head(s)>> \o Replace(Tail(s), p)

AsciiDigits == {"0", "1", "2", "3", "4", "5", "6", "7", "8", "9"}
DigitVal(c) ==
    CASE c = "0" -> 0 [] c = "1" -> 1 [] c = "2" -> 2 [] c = "3" -> 3
      [] c = "4" -> 4 [] c = "5" -> 5 [] c = "6" -> 6 [] c = "7" -> 7
      [] c = "8" -> 8 [] c = "9" -> 9

\* str.isdigit: non-empty, every character has the Unicode digit property;
\* that holds of the ASCII digits and of superscript digits.
IsDigitChar(c) == c \in AsciiDigits \/ c = "sup2"
IsDigit(s) == s # <<>> /\ \A i \in 1..Len(s) : IsDigitChar(s[i])

RECURSIVE DecVal(_)
DecVal(s) ==
    IF s = <<>> THEN 0
    ELSE 10 * DecVal(SubSeq(s, 1, Len(s) - 1)) + DigitVal(s[Len(s)])

AllDecimal(s) == s # <<>> /\ \A i \in 1..Len(s) : s[i] \in AsciiDigits

\* int(s) of a text: surrounding blanks ignored, an optional sign, then
\* decimal digits; anything else is a ValueError.
PyInt(s0) ==
    LET s == Strip(s0)
        neg == s # <<>> /\ Head(s) = "-"
        signed == s # <<>> /\ Head(s) \in {"-", "+"}
        body == IF signed THEN Tail(s) ELSE s
    IN  IF AllDecimal(body)
        THEN [ok |-> TRUE, v |-> IF neg THEN -DecVal(body) ELSE DecVal(body)]
        ELSE [ok |-> FALSE, v |-> 0]

(***************************************************************************)
(* Outcomes of a call: a value, None, or an exception.                     *)
(***************************************************************************)
None == [t |-> "none"]
Year(n) == [t |-> "int", v |-> n]
Raise(e) == [t |-> "raise", e |-> e]
Pending == [t |-> "pending"]

\* int(x) of a number: truncation toward zero; inf raises OverflowError.
PyIntOfNumber(c) ==
    IF c.k = "int" THEN Year(c.v)
    ELSE IF ~IsFin(c.v) THEN Raise("OverflowError")
    ELSE IF c.v.n >= 0 THEN Year(c.v.n \div c.v.d)
    ELSE Year(-((-c.v.n) \div c.v.d))

HeiseiBase == 1988
ReiwaBase == 2018
ReiwaFirst == 2019

\* A variant of the Heisei try-block that counts Heisei 1 as 1990.
HeiseiBranch_Shifted(s) ==
    LET r == PyInt(Strip(Replace(Replace(s, Heisei), Nen)))
    IN  IF StartsWith(s, Heisei) /\ r.ok THEN Year(HeiseiBase + 1 + r.v) ELSE None

\* The Heisei try-block: a value, or None for "fell through".
HeiseiBranch(s) ==
    LET r == PyInt(Strip(Replace(Replace(s, Heisei), Nen)))
    IN  IF StartsWith(s, Heisei) /\ r.ok THEN Year(HeiseiBase + r.v) ELSE None

\* The Reiwa try-block.
ReiwaBranch(s) ==
    LET val == Strip(Replace(Replace(s, Reiwa), Nen))
        r == PyInt(val)
    IN  IF ~StartsWith(s, Reiwa) THEN None
        ELSE IF val = Gan THEN Year(ReiwaFirst)
        ELSE IF r.ok THEN Year(ReiwaBase + r.v)
        ELSE None

\* The first try-block that returned decides; None when both fell through.
OrElse(a, b) == IF a # None THEN a ELSE b

convert_year(c) ==
    IF IsNaCell(c) THEN None
    ELSE IF c.k \in {"int", "float"} THEN PyIntOfNumber(c)
    ELSE IF Lower(Strip(c.s)) = <<"n", "a", "n">> THEN None
    ELSE IF IsDigit(Strip(c.s)) THEN
        (IF AllDecimal(Strip(c.s)) THEN Year(DecVal(Strip(c.s)))
         ELSE Raise("ValueError"))
    ELSE OrElse(HeiseiBranch(Strip(c.s)), ReiwaBranch(Strip(c.s)))

(***************************************************************************)
(* clean_num.                                                              *)
(***************************************************************************)
RECURSIVE Pow10(_)
Pow10(k) == IF k = 0 THEN 1 ELSE 10 * Pow10(k - 1)

RECURSIVE IndexOfDot(_, _)
IndexOfDot(s, i) ==
    IF i > Len(s) THEN 0 ELSE IF s[i] = "." THEN i ELSE IndexOfDot(s, i + 1)

AllDecimalOrEmpty(s) == \A i \in 1..Len(s) : s[i] \in AsciiDigits

\* float(s) of a text: blanks ignored, an optional sign, decimal digits with
\* an optional fraction, or the word inf; anything else is a ValueError.
PyFloat(s0) ==
    LET s == Strip(s0)
        neg == s # <<>> /\ Head(s) = "-"
        signed == s # <<>> /\ Head(s) \in {"-", "+"}
        body == IF signed THEN Tail(s) ELSE s
        dot == IndexOfDot(body, 1)
        ip == IF dot = 0 THEN body ELSE SubSeq(body, 1, dot - 1)
        fp == IF dot = 0 THEN <<>> ELSE SubSeq(body, dot + 1, Len(body))
        mag == DecVal(ip) * Pow10(Len(fp)) + DecVal(fp)
    IN  IF Lower(body) = <<"i", "n", "f">>
        THEN [ok |-> TRUE, v |-> Inf(IF neg THEN -1 ELSE 1)]
        ELSE IF Lower(body) = <<"n", "a", "n">>
        THEN [ok |-> TRUE, v |-> NaN]
        ELSE IF AllDecimalOrEmpty(ip) /\ AllDecimalOrEmpty(fp) /\ ip \o fp # <<>>
        THEN [ok |-> TRUE, v |-> Fin(IF neg THEN -mag ELSE mag, Pow10(Len(fp)))]
        ELSE [ok |-> FALSE, v |-> NaN]

Placeholders == {<<"dash">>, <<"-">>, <<"n", "a", "n">>}

clean_num(x) ==
    IF IsNaCell(x) THEN NaN
    ELSE IF x.k = "str" THEN
        (IF Strip(x.s) \in Placeholders THEN NaN
         ELSE LET r == PyFloat(Replace(x.s, <<",">>))
              IN  IF r.ok THEN r.v ELSE NaN)
    ELSE IF x.k = "int" THEN Num(x.v)
    ELSE x.v

(***************************************************************************)
(* Raw tables (pandas data frames read with header=None).  A table has a   *)
(* shape and its non-empty cells; every other cell in range is missing.    *)
(***************************************************************************)
NoTable == [nrows |-> 0, ncols |-> 0, cell |-> <<>>]

\* df.iloc[r, c] of a position known to be in range.
Cell(t, r, c) ==
    IF <<r, c>> \in DOMAIN t.cell THEN t.cell[<<r, c>>] ELSE NaNCell

\* df.iloc[r, c] raises IndexError outside the shape.
InRange(t, r, c) == r < t.nrows /\ c < t.ncols

\* The columns df.iloc[r, c0:c1] covers: a slice is cut to the shape.
SliceCols(t, c0, c1) ==
    LET hi == IF c1 < t.ncols THEN c1 ELSE t.ncols
    IN  IF hi > c0 THEN [i \in 1..(hi - c0) |-> c0 + i - 1] ELSE <<>>

\* Outcomes of convert_year over the cells of row r at the columns cols (a
\* list comprehension, or the calls of a scanning loop).
ConvertAll(t, r, cols) == [i \in 1..Len(cols) |-> convert_year(Cell(t, r, cols[i]))]
AnyRaise(ys) == \E i \in 1..Len(ys) : ys[i].t = "raise"

\* "if y:" is false for None and for 0; "if y is None" only for None.
Truthy(y) == y.t = "int" /\ y.v # 0
NotNone(y) == y.t = "int"

Indices(ys) == [i \in 1..Len(ys) |-> i]
TruthyIdx(ys) == SelectSeq(Indices(ys), LAMBDA i : Truthy(ys[i]))
NotNoneIdx(ys) == SelectSeq(Indices(ys), LAMBDA i : NotNone(ys[i]))

\* The years, and the cleaned cells of row r, at the kept positions idx.
Pick(ys, idx) == [k \in 1..Len(idx) |-> ys[idx[k]].v]
Nums(t, r, cols, idx) == [k \in 1..Len(idx) |-> clean_num(Cell(t, r, cols[idx[k]]))]

(***************************************************************************)
(* Lists and dicts of the extractors.                                      *)
(***************************************************************************)
\* dict(zip(keys, vals)).get(k, nan): the last pair with that key wins.
RECURSIVE DictGet(_, _, _, _)
DictGet(keys, vals, k, i) ==
    IF i = 0 THEN NaN
    ELSE IF keys[i] = k THEN vals[i]
    ELSE DictGet(keys, vals, k, i - 1)

\* keys.index(k): the first position holding k (0-based), k known present.
RECURSIVE ListIndex(_, _, _)
ListIndex(keys, k, i) ==
    IF keys[i] = k THEN i - 1 ELSE ListIndex(keys, k, i + 1)

SeqRange(s) == {s[i] : i \in 1..Len(s)}

\* sorted(list(S)) of a set of integers.
RECURSIVE SortedFrom(_, _)
SortedFrom(S, lo) ==
    IF \A x \in S : x < lo THEN <<>>
    ELSE IF lo \in S THEN <<lo>> \o SortedFrom(S, lo + 1)
    ELSE SortedFrom(S, lo + 1)

Sorted(S) == IF S = {} THEN <<>> ELSE SortedFrom(S, CHOOSE x \in S : \A y \in S : x <= y)

Rec(city, y, p, w, c) ==
    [City |-> city, Year |-> y, Population |-> p, Waste |-> w, Cost |-> c]

(***************************************************************************)
(* load_sakai.                                                             *)
(***************************************************************************)
SakaiWasteCols(t) == SliceCols(t, 1, 16)
SakaiCostCols(t) ==
    IF t.ncols > 19 THEN [i \in 1..(t.ncols - 19) |-> 19 + i - 1] ELSE <<>>

\* The statements before the record loop raise: a missing row 1, a year cell
\* convert_year raises on, or a kept column whose data rows are missing.
SakaiRaises(t, wy, cy) ==
    \/ t.nrows <= 1
    \/ AnyRaise(wy)
    \/ (TruthyIdx(wy) # <<>> /\ t.nrows <= 2)
    \/ AnyRaise(cy)
    \/ (TruthyIdx(cy) # <<>> /\ t.nrows <= 9)

\* A variant of the population rule that divides whenever the divisor is
\* not nan (no "> 0" guard).
SakaiPop_NoGuard(years_cost, cost_list, per_capita_cost, y) ==
    IF y \in SeqRange(years_cost)
    THEN IF /\ ListIndex(years_cost, y, 1) < Len(per_capita_cost)
            /\ ~IsNaN(per_capita_cost[ListIndex(years_cost, y, 1) + 1])
         THEN NpDiv(FMul(cost_list[ListIndex(years_cost, y, 1) + 1], Num(1000)),
                    per_capita_cost[ListIndex(years_cost, y, 1) + 1])
         ELSE NaN
    ELSE NaN

\* The population of year y: the first cost column labelled y decides.
SakaiPop(years_cost, cost_list, per_capita_cost, y) ==
    IF y \in SeqRange(years_cost)
    THEN IF /\ ListIndex(years_cost, y, 1) < Len(per_capita_cost)
            /\ FPos(per_capita_cost[ListIndex(years_cost, y, 1) + 1])
         THEN NpDiv(FMul(cost_list[ListIndex(years_cost, y, 1) + 1], Num(1000)),
                    per_capita_cost[ListIndex(years_cost, y, 1) + 1])
         ELSE NaN
    ELSE NaN

\* The record loop over all_years.
SakaiRecords(all_years, years_waste, waste_list, years_cost, cost_list,
             per_capita_cost) ==
    [i \in 1..Len(all_years) |->
        Rec("sakai", all_years[i],
            SakaiPop(years_cost, cost_list, per_capita_cost, all_years[i]),
            DictGet(years_waste, waste_list, all_years[i], Len(years_waste)),
            DictGet(years_cost, cost_list, all_years[i], Len(years_cost)))]

SakaiMerge(years_waste, waste_list, years_cost, cost_list, per_capita_cost) ==
    SakaiRecords(Sorted(SeqRange(years_waste) \cup SeqRange(years_cost)),
                 years_waste, waste_list, years_cost, cost_list, per_capita_cost)

\* wy, cy: the outcomes of convert_year on the two year axes.
SakaiScan(t, wy, cy) ==
    IF SakaiRaises(t, wy, cy) THEN <<>>
    ELSE SakaiMerge(Pick(wy, TruthyIdx(wy)),
                    Nums(t, 2, SakaiWasteCols(t), TruthyIdx(wy)),
                    Pick(cy, TruthyIdx(cy)),
                    Nums(t, 7, SakaiCostCols(t), TruthyIdx(cy)),
                    Nums(t, 9, SakaiCostCols(t), TruthyIdx(cy)))

load_sakai(t) ==
    SakaiScan(t, ConvertAll(t, 1, SakaiWasteCols(t)),
              ConvertAll(t, 1, SakaiCostCols(t)))

(***************************************************************************)
(* load_kanazawa.                                                          *)
(***************************************************************************)
KanazawaDataCols(t) ==
    IF t.ncols > 21 THEN [i \in 1..(t.ncols - 21) |-> 21 + i - 1] ELSE <<>>
KanazawaCostCols(t) == SliceCols(t, 3, 18)

CostRows == <<2, 5, 8>>

\* cost_sum of one cost column: starts at 0, adds every component that is
\* not nan.
RECURSIVE CostSum(_, _, _)
CostSum(t, c, k) ==
    IF k = 0 THEN Num(0)
    ELSE IF IsNaN(clean_num(Cell(t, CostRows[k], c))) THEN CostSum(t, c, k - 1)
    ELSE FAdd(CostSum(t, c, k - 1), clean_num(Cell(t, CostRows[k], c)))

CostSums(t, cols, idx) ==
    [k \in 1..Len(idx) |-> CostSum(t, cols[idx[k]], Len(CostRows))]

KanazawaRaises(t, years, years_cost) ==
    \/ t.nrows <= 3
    \/ AnyRaise(years)
    \/ AnyRaise(years_cost)
    \/ (NotNoneIdx(years_cost) # <<>> /\ t.nrows <= 8)

\* The record loop: one record per position of years that is not None.
KanazawaRecords(t, cols, years, idx, cost_years, cost_sums) ==
    [k \in 1..Len(idx) |->
        Rec("kanazawa", years[idx[k]].v,
            clean_num(Cell(t, 2, cols[idx[k]])),
            clean_num(Cell(t, 3, cols[idx[k]])),
            DictGet(cost_years, cost_sums, years[idx[k]].v, Len(cost_years)))]

\* years, years_cost: the outcomes of convert_year on the two year axes.
KanazawaScan(t, years, years_cost) ==
    IF KanazawaRaises(t, years, years_cost) THEN <<>>
    ELSE KanazawaRecords(t, KanazawaDataCols(t), years, NotNoneIdx(years),
                         Pick(years_cost, NotNoneIdx(years_cost)),
                         CostSums(t, KanazawaCostCols(t), NotNoneIdx(years_cost)))

load_kanazawa(t) ==
    KanazawaScan(t, ConvertAll(t, 1, KanazawaDataCols(t)),
                 ConvertAll(t, 1, KanazawaCostCols(t)))

(***************************************************************************)
(* load_toyama.                                                            *)
(***************************************************************************)
ToyamaScale == 100000

ToyamaRows(t) == IF t.nrows > 3 THEN [i \in 1..(t.nrows - 3) |-> 3 + i - 1] ELSE <<>>

\* "if pd.isna(row[col]): continue", else convert_year(row[col]), per row.
RowYears(t, rows, col) ==
    [k \in 1..Len(rows) |->
        IF IsNaCell(Cell(t, rows[k], col)) THEN None
        ELSE convert_year(Cell(t, rows[k], col))]

\* The right-table loop raises: column 7 or 10 is missing, or convert_year
\* raises on a year cell.
ToyamaRightRaises(t, ry) ==
    /\ ry # <<>>
    /\ \/ t.ncols <= 7
       \/ AnyRaise(ry)
       \/ (TruthyIdx(ry) # <<>> /\ t.ncols <= 10)

\* The rows of the right table that set cost_map[y], in order.
ToyamaCostIdx(t, rows, ry) ==
    SelectSeq(TruthyIdx(ry), LAMBDA k : ~IsNaN(clean_num(Cell(t, rows[k], 10))))

ToyamaCostVals(t, rows, idx) ==
    [k \in 1..Len(idx) |-> FMul(clean_num(Cell(t, rows[idx[k]], 10)), Num(ToyamaScale))]

\* The left-table loop from position k on: an exception ends the loop and
\* the records appended before it are what the function returns.
RECURSIVE ToyamaLeft(_, _, _, _, _, _)
ToyamaLeft(t, rows, ly, cost_years, cost_vals, k) ==
    IF k > Len(rows) THEN <<>>
    ELSE IF ly[k].t = "raise" THEN <<>>
    ELSE IF Truthy(ly[k])
    THEN <<Rec("toyama", ly[k].v,
               clean_num(Cell(t, rows[k], 5)),
               clean_num(Cell(t, rows[k], 4)),
               DictGet(cost_years, cost_vals, ly[k].v, Len(cost_years)))>>
         \o ToyamaLeft(t, rows, ly, cost_years, cost_vals, k + 1)
    ELSE ToyamaLeft(t, rows, ly, cost_years, cost_vals, k + 1)

\* ry, ly: the outcomes of the year cells of the right and the left table.
ToyamaScan(t, ry, ly) ==
    IF ToyamaRightRaises(t, ry) THEN <<>>
    ELSE ToyamaLeft(t, ToyamaRows(t), ly,
                    Pick(ry, ToyamaCostIdx(t, ToyamaRows(t), ry)),
                    ToyamaCostVals(t, ToyamaRows(t), ToyamaCostIdx(t, ToyamaRows(t), ry)),
                    1)

load_toyama(t) ==
    ToyamaScan(t, RowYears(t, ToyamaRows(t), 7), RowYears(t, ToyamaRows(t), 0))

(***************************************************************************)
(* load_chiba.                                                             *)
(***************************************************************************)
PopFirstYear == 2010
PopLastYear == 2022
MarkerFloor == 2000
MarkerLen == 4
TargetOffset == 10
CostUnit == 1000

chiba_pop ==
    [y \in PopFirstYear..PopLastYear |->
        CASE y = 2010 -> 961749 [] y = 2011 -> 962624 [] y = 2012 -> 962130
          [] y = 2013 -> 964153 [] y = 2014 -> 966862 [] y = 2015 -> 971842
          [] y = 2016 -> 972861 [] y = 2017 -> 975149 [] y = 2018 -> 977419
          [] y = 2019 -> 980637 [] y = 2020 -> 974951 [] y = 2021 -> 975210
          [] y = 2022 -> 975268]

\* A variant of the lookup that misses the last year of the table.
ChibaPopGet_ShortTable(y) ==
    IF y \in PopFirstYear..(PopLastYear - 1) THEN Num(chiba_pop[y]) ELSE NaN

\* chiba_pop.get(year, np.nan)
ChibaPopGet(y) == IF y \in DOMAIN chiba_pop THEN Num(chiba_pop[y]) ELSE NaN

DigitChar(n) ==
    CASE n = 0 -> "0" [] n = 1 -> "1" [] n = 2 -> "2" [] n = 3 -> "3"
      [] n = 4 -> "4" [] n = 5 -> "5" [] n = 6 -> "6" [] n = 7 -> "7"
      [] n = 8 -> "8" [] n = 9 -> "9"

RECURSIVE NatToStr(_)
NatToStr(n) ==
    IF n < 10 THEN <<DigitChar(n)>> ELSE NatToStr(n \div 10) \o <<DigitChar(n % 10)>>

IntToStr(n) == IF n < 0 THEN <<"-">> \o NatToStr(-n) ELSE NatToStr(n)

RECURSIVE FracDigits(_, _, _)
FracDigits(r, d, k) ==
    IF r = 0 \/ k = 0 THEN <<>>
    ELSE <<DigitChar((10 * r) \div d)>> \o FracDigits((10 * r) % d, d, k - 1)

OrZero(f) == IF f = <<>> THEN <<"0">> ELSE f

\* str(x) of a cell: a float always shows a decimal point (or inf, nan).
PyStr(c) ==
    IF c.k = "str" THEN c.s
    ELSE IF c.k = "int" THEN IntToStr(c.v)
    ELSE IF IsNaCell(c) THEN <<"n", "a", "n">>
    ELSE IF ~IsFin(c.v) THEN
        (IF c.v.s < 0 THEN <<"-", "i", "n", "f">> ELSE <<"i", "n", "f">>)
    ELSE (IF c.v.n < 0 THEN <<"-">> ELSE <<>>)
         \o NatToStr(Abs(c.v.n) \div c.v.d) \o <<".">>
         \o OrZero(FracDigits(Abs(c.v.n) % c.v.d, c.v.d, 17))

\* The test of the year-marker scan on val = str(row[0]).strip(): the year
\* of a marker, None for a row that is none, an exception when int() fails.
MarkerOfText(val) ==
    IF ~(IsDigit(val) /\ Len(val) = MarkerLen) THEN None
    ELSE IF ~AllDecimal(val) THEN Raise("ValueError")
    ELSE IF DecVal(val) > MarkerFloor THEN Year(DecVal(val))
    ELSE None

\* The outcome of the scan for every row of the table.
Markers(t) == [i \in 1..t.nrows |-> MarkerOfText(Strip(PyStr(Cell(t, i - 1, 0))))]

\* year_rows as positions of ms; those whose target row is in the table.
YearIdx(ms) == SelectSeq(Indices(ms), LAMBDA i : ms[i].t = "int")
HitIdx(t, ms) == SelectSeq(YearIdx(ms), LAMBDA i : i - 1 + TargetOffset < t.nrows)

\* int(val) raises in the scan, or a target row is read past column 6 / 11.
ChibaRaises(t, ms) == AnyRaise(ms) \/ (HitIdx(t, ms) # <<>> /\ t.ncols <= 11)

ChibaCost(cost_val) ==
    IF IsNaN(cost_val) THEN cost_val ELSE NpDiv(cost_val, Num(CostUnit))

ChibaRecords(t, ms, hit) ==
    [k \in 1..Len(hit) |->
        Rec("chiba", ms[hit[k]].v, ChibaPopGet(ms[hit[k]].v),
            clean_num(Cell(t, hit[k] - 1 + TargetOffset, 11)),
            ChibaCost(clean_num(Cell(t, hit[k] - 1 + TargetOffset, 6))))]

ChibaScan(t, ms) ==
    IF ChibaRaises(t, ms) THEN <<>> ELSE ChibaRecords(t, ms, HitIdx(t, ms))

load_chiba(t) == ChibaScan(t, Markers(t))

(***************************************************************************)
(* main(): the metric derivation.                                          *)
(***************************************************************************)
GramsPerTon == 1000000
DaysPerYear == 365
YenPerThousand == 1000

Waste_per_Capita_g(r) ==
    NpDiv(NpDiv(FMul(r.Waste, Num(GramsPerTon)), r.Population), Num(DaysPerYear))
Cost_per_Capita_Yen(r) == NpDiv(FMul(r.Cost, Num(YenPerThousand)), r.Population)
Cost_per_Ton_Yen(r) == NpDiv(FMul(r.Cost, Num(YenPerThousand)), r.Waste)

Derived(r) ==
    [City |-> r.City, Year |-> r.Year, Population |-> r.Population,
     Waste |-> r.Waste, Cost |-> r.Cost,
     Waste_per_Capita_g |-> Waste_per_Capita_g(r),
     Cost_per_Capita_Yen |-> Cost_per_Capita_Yen(r),
     Cost_per_Ton_Yen |-> Cost_per_Ton_Yen(r)]
(***************************************************************************)
(* The raw tables the runs are checked on.  A table is laid out at the     *)
(* coordinates its extractor reads; each year column (or row) is one of a  *)
(* few options, and a run with a single input file draws from the full     *)
(* set, a run with several files from the sample set.                      *)
(***************************************************************************)
Cities == {"kanazawa", "sakai", "toyama", "chiba"}

Txt2015 == StrCell(<<"2", "0", "1", "5">>)
TxtH28 == StrCell(<<"hei", "sei", "2", "8", "nen">>)
TxtDash == StrCell(<<"-">>)
InfCell == FloatCell(Inf(1))
Txt(n) == StrCell(NatToStr(n))
TxtComma(thousands) == StrCell(NatToStr(thousands) \o <<",", "0", "0", "0">>)

SeqsUpTo(S, n) == UNION {[1..k -> S] : k \in 0..n}

\* Sakai: waste axis at columns 1.., rows 1-2; cost axis at columns 19..,
\* rows 1, 7 and 9.
SakaiWasteOpts ==
    {[y |-> NaNCell, w |-> Txt(50)],
     [y |-> Txt2015, w |-> Txt(50)],
     [y |-> TxtH28, w |-> TxtDash]}

SakaiCostOpts ==
    {[y |-> NaNCell, cost |-> TxtComma(1), pcc |-> Txt(10)],
     [y |-> InfCell, cost |-> TxtComma(1), pcc |-> Txt(10)]}
    \cup {[y |-> y, cost |-> p[1], pcc |-> p[2]] :
            y \in {Txt2015, TxtH28},
            p \in {<<TxtComma(1), Txt(10)>>,
                   <<TxtComma(2), Txt(0)>>,
                   <<TxtComma(3), StrCell(<<"-", "5">>)>>,
                   <<TxtComma(4), TxtDash>>}}

SakaiTable(nrows, wcols, ccols) ==
    [nrows |-> nrows,
     ncols |-> 19 + Len(ccols),
     cell |->
        [p \in ({1, 2} \X {i : i \in 1..Len(wcols)})
               \cup ({1, 7, 9} \X {18 + i : i \in 1..Len(ccols)}) |->
            IF p[2] < 19
            THEN (IF p[1] = 1 THEN wcols[p[2]].y ELSE wcols[p[2]].w)
            ELSE (IF p[1] = 1 THEN ccols[p[2] - 18].y
                  ELSE IF p[1] = 7 THEN ccols[p[2] - 18].cost
                  ELSE ccols[p[2] - 18].pcc)]]

SakaiTablesOf(wopts, copts, wmax, cmax) ==
    {SakaiTable(10, w, c) : w \in SeqsUpTo(wopts, wmax), c \in SeqsUpTo(copts, cmax)}
    \cup {SakaiTable(8, w, <<c>>) : w \in SeqsUpTo(wopts, wmax), c \in copts}

\* Kanazawa: cost axis at columns 3.., rows 1, 2, 5 and 8; population and
\* waste axis at columns 21.., rows 1-3.
KanazawaCostOpts ==
    {[y |-> NaNCell, a |-> Txt(1), b |-> Txt(2), c |-> Txt(4)]}
    \cup {[y |-> y, a |-> p[1], b |-> p[2], c |-> p[3]] :
            y \in {Txt2015, TxtH28},
            p \in {<<TxtDash, TxtDash, TxtDash>>,
                   <<Txt(1), TxtDash, TxtDash>>,
                   <<TxtDash, Txt(2), Txt(4)>>,
                   <<Txt(1), Txt(2), Txt(4)>>}}

KanazawaDataOpts ==
    {[y |-> NaNCell, p |-> TxtComma(1), w |-> Txt(50)]}
    \cup {[y |-> y, p |-> q[1], w |-> q[2]] :
            y \in {Txt2015, TxtH28},
            q \in {<<TxtComma(1), Txt(50)>>, <<Txt(0), TxtDash>>}}

KanazawaTable(nrows, ccols, dcols) ==
    [nrows |-> nrows,
     ncols |-> 21 + Len(dcols),
     cell |->
        [p \in ({1, 2, 5, 8} \X {2 + i : i \in 1..Len(ccols)})
               \cup ({1, 2, 3} \X {20 + i : i \in 1..Len(dcols)}) |->
            IF p[2] < 21
            THEN (IF p[1] = 1 THEN ccols[p[2] - 2].y
                  ELSE IF p[1] = 2 THEN ccols[p[2] - 2].a
                  ELSE IF p[1] = 5 THEN ccols[p[2] - 2].b
                  ELSE ccols[p[2] - 2].c)
            ELSE (IF p[1] = 1 THEN dcols[p[2] - 20].y
                  ELSE IF p[1] = 2 THEN dcols[p[2] - 20].p
                  ELSE dcols[p[2] - 20].w)]]

KanazawaTablesOf(copts, dopts, n) ==
    {KanazawaTable(9, c, d) : c \in SeqsUpTo(copts, n), d \in SeqsUpTo(dopts, n)}
    \cup {KanazawaTable(6, <<c>>, <<d>>) : c \in copts, d \in dopts}

\* Toyama: data rows from row 3; left table in columns 0, 4, 5, right table
\* in columns 7 and 10.
ToyamaRowOpts ==
    {[ly |-> ly, w |-> q[1], p |-> q[2], ry |-> r[1], cost |-> r[2]] :
        ly \in {NaNCell, Txt2015, TxtH28},
        q \in {<<Txt(50), TxtComma(1)>>, <<Txt(0), Txt(0)>>},
        r \in {<<NaNCell, Txt(12)>>, <<Txt2015, Txt(12)>>, <<Txt2015, TxtDash>>,
               <<TxtH28, Txt(7)>>}}
    \cup {[ly |-> InfCell, w |-> Txt(50), p |-> TxtComma(1),
           ry |-> Txt2015, cost |-> Txt(12)]}

ToyamaTable(ncols, rows) ==
    [nrows |-> 3 + Len(rows),
     ncols |-> ncols,
     cell |->
        [p \in {2 + i : i \in 1..Len(rows)} \X ({0, 4, 5, 7, 10} \cap 0..(ncols - 1)) |->
            IF p[2] = 0 THEN rows[p[1] - 2].ly
            ELSE IF p[2] = 4 THEN rows[p[1] - 2].w
            ELSE IF p[2] = 5 THEN rows[p[1] - 2].p
            ELSE IF p[2] = 7 THEN rows[p[1] - 2].ry
            ELSE rows[p[1] - 2].cost]]

ToyamaTablesOf(opts, n) ==
    {ToyamaTable(11, r) : r \in SeqsUpTo(opts, n)}
    \cup {ToyamaTable(w, <<r>>) : w \in {7, 8}, r \in opts}

\* Chiba: year markers in column 0 of the leading rows, each with its cost
\* (column 6) and waste (column 11) ten rows below; the table may end
\* before the target row of the last markers.
SupText == StrCell(<<"sup2", "0", "1", "5">>)

ChibaOpts ==
    {[m |-> m, cost |-> q[1], waste |-> q[2]] :
        m \in {Txt(2010), Txt(2022), Txt(2023), Txt(2009)},
        q \in {<<TxtComma(5), Txt(300)>>, <<TxtDash, Txt(300)>>, <<Txt(1500), TxtDash>>}}
    \cup {[m |-> m, cost |-> TxtComma(5), waste |-> Txt(300)] :
        m \in {Txt(2000), FloatCell(Num(2015)), IntCell(2015), NaNCell, SupText}}

ChibaTable(nrows, ncols, ms) ==
    [nrows |-> nrows,
     ncols |-> ncols,
     cell |->
        [p \in ({i - 1 : i \in 1..Len(ms)} \X {0})
               \cup (({TargetOffset + i - 1 : i \in 1..Len(ms)} \cap 0..(nrows - 1))
                     \X ({6, 11} \cap 0..(ncols - 1))) |->
            IF p[2] = 0 THEN ms[p[1] + 1].m
            ELSE IF p[2] = 6 THEN ms[p[1] - TargetOffset + 1].cost
            ELSE ms[p[1] - TargetOffset + 1].waste]]

ChibaTablesOf(opts, n) ==
    UNION {{ChibaTable(TargetOffset + k, 12, ms) :
                ms \in {x \in SeqsUpTo(opts, n) : Len(x) >= k}} : k \in 0..n}
    \cup {ChibaTable(TargetOffset + 1, w, <<m>>) : w \in {6, 11}, m \in opts}

\* The sample tables of runs with several input files.
Sample(city) ==
    CASE city = "kanazawa" ->
           KanazawaTablesOf({o \in KanazawaCostOpts : o.y = Txt2015 /\ o.a # TxtDash},
                            {o \in KanazawaDataOpts : o.y = Txt2015}, 1)
      [] city = "sakai" ->
           SakaiTablesOf({o \in SakaiWasteOpts : o.y = Txt2015},
                         {o \in SakaiCostOpts : o.y = TxtH28 /\ o.pcc = Txt(10)}, 1, 1)
      [] city = "toyama" ->
           ToyamaTablesOf({o \in ToyamaRowOpts : o.ly = Txt2015 /\ o.ry = Txt2015}, 1)
      [] city = "chiba" ->
           ChibaTablesOf({o \in ChibaOpts : o.m = Txt(2023)}, 1)

Full(city) ==
    CASE city = "kanazawa" -> KanazawaTablesOf(KanazawaCostOpts, KanazawaDataOpts, MaxCols)
      [] city = "sakai" -> SakaiTablesOf(SakaiWasteOpts, SakaiCostOpts, MaxWasteCols, MaxCols)
      [] city = "toyama" -> ToyamaTablesOf(ToyamaRowOpts, MaxRows)
      [] city = "chiba" -> ChibaTablesOf(ChibaOpts, MaxMarkers)

TablesFor(city) == IF Cardinality(present) = 1 THEN Full(city) ELSE Sample(city)

(***************************************************************************)
(* main().                                                                 *)
(***************************************************************************)
InitWith(files) ==
    /\ pc = "kanazawa"
    /\ present \in files
    /\ df = [c \in Cities |-> NoTable]
    /\ records = <<>>
    /\ all_records = <<>>
    /\ summary = <<>>
    /\ year_in = NaNCell
    /\ year_out = Pending

Init == InitWith(SUBSET Cities)

\* "if os.path.exists(FILES[city]): all_records.extend(load_city(FILES[city]))"
LoadKanazawa ==
    /\ pc = "kanazawa"
    /\ pc' = "sakai"
    /\ IF "kanazawa" \in present
       THEN \E t \in TablesFor("kanazawa") :
                /\ df' = [df EXCEPT !["kanazawa"] = t]
                /\ records' = load_kanazawa(t)
                /\ all_records' = all_records \o records'
       ELSE UNCHANGED <<df, records, all_records>>
    /\ UNCHANGED <<present, summary, year_in, year_out>>

LoadSakai ==
    /\ pc = "sakai"
    /\ pc' = "toyama"
    /\ IF "sakai" \in present
       THEN \E t \in TablesFor("sakai") :
                /\ df' = [df EXCEPT !["sakai"] = t]
                /\ records' = load_sakai(t)
                /\ all_records' = all_records \o records'
       ELSE UNCHANGED <<df, records, all_records>>
    /\ UNCHANGED <<present, summary, year_in, year_out>>

LoadToyama ==
    /\ pc = "toyama"
    /\ pc' = "chiba"
    /\ IF "toyama" \in present
       THEN \E t \in TablesFor("toyama") :
                /\ df' = [df EXCEPT !["toyama"] = t]
                /\ records' = load_toyama(t)
                /\ all_records' = all_records \o records'
       ELSE UNCHANGED <<df, records, all_records>>
    /\ UNCHANGED <<present, summary, year_in, year_out>>

LoadChiba ==
    /\ pc = "chiba"
    /\ pc' = "derive"
    /\ IF "chiba" \in present
       THEN \E t \in TablesFor("chiba") :
                /\ df' = [df EXCEPT !["chiba"] = t]
                /\ records' = load_chiba(t)
                /\ all_records' = all_records \o records'
       ELSE UNCHANGED <<df, records, all_records>>
    /\ UNCHANGED <<present, summary, year_in, year_out>>

\* "if not all_records: return", else the three derived columns.
Derive ==
    /\ pc = "derive"
    /\ pc' = "done"
    /\ summary' = [i \in 1..Len(all_records) |-> Derived(all_records[i])]
    /\ UNCHANGED <<present, df, records, all_records, year_in, year_out>>

Next == LoadKanazawa \/ LoadSakai \/ LoadToyama \/ LoadChiba \/ Derive

Spec == Init /\ [][Next]_vars

\* Runs in which only one city's file exists.
InitSakai == InitWith({{"sakai"}})
SpecSakai == InitSakai /\ [][Next]_vars

InitChiba == InitWith({{"chiba"}})
SpecChiba == InitChiba /\ [][Next]_vars

(***************************************************************************)
(* convert_year on its own: every text up to MaxLen over YearChars, and a  *)
(* few numbers and other texts.                                            *)
(***************************************************************************)
YearChars == {"hei", "sei", "rei", "wa", "nen", "gan", "1", "sup2", " ", "-"}

YearInputs(n) ==
    {StrCell(s) : s \in SeqsUpTo(YearChars, n)}
    \cup {NaNCell, FloatCell(NaN), FloatCell(Inf(1)), FloatCell(Inf(-1)),
          FloatCell(Num(2015)), FloatCell(Fin(40311, 20)), FloatCell(Fin(-3, 2)),
          IntCell(2015), IntCell(5), IntCell(0),
          StrCell(<<"n", "a", "n">>), StrCell(<<"N", "a", "N">>),
          StrCell(<<"x">>), StrCell(<<"1", "2">>),
          Txt2015, TxtH28, SupText,
          StrCell(<<"hei", "sei", "sup2">>),
          StrCell(<<"hei", "sei", "2", "nen">>),
          StrCell(<<"rei", "wa", "gan", "nen">>),
          StrCell(<<" ", "rei", "wa", " ", "gan", " ", "nen", " ">>),
          StrCell(<<"rei", "wa", "1", "0", "nen">>),
          StrCell(<<"rei", "wa", "x">>),
          StrCell(<<"hei", "sei", "3", "1", "nen">>)}

InitYear ==
    /\ pc = "convert_year"
    /\ present = {}
    /\ df = [c \in Cities |-> NoTable]
    /\ records = <<>>
    /\ all_records = <<>>
    /\ summary = <<>>
    /\ year_in \in YearInputs(MaxLen)
    /\ year_out = Pending

ConvertYear ==
    /\ pc = "convert_year"
    /\ pc' = "returned"
    /\ year_out' = convert_year(year_in)
    /\ UNCHANGED <<present, df, records, all_records, summary, year_in>>

NextYear == ConvertYear

SpecYear == InitYear /\ [][NextYear]_vars

(***************************************************************************)
(* The claims.  RecordsOf(city) is what the extractor of city returned in  *)
(* this run; Ran(city) says it was called.                                 *)
(***************************************************************************)
Ran(city) == df[city] # NoTable
RecordsOf(city) == SelectSeq(all_records, LAMBDA r : r.City = city)
YearsIn(recs) == {recs[i].Year : i \in 1..Len(recs)}

\* The years a year axis resolves to: row r, columns cols.
AxisYears(t, r, cols) ==
    {convert_year(Cell(t, r, c)).v :
        c \in {x \in cols : Truthy(convert_year(Cell(t, r, x)))}}

\* C1 (as claimed): no two records of the final table share City and Year.
C1_OneRecordPerCityYear ==
    \A i, j \in 1..Len(all_records) :
        i # j => <<all_records[i].City, all_records[i].Year>>
                 # <<all_records[j].City, all_records[j].Year>>

\* C2 (as claimed): in the derived table a derived field is absent (nan,
\* never infinite) whenever its denominator is absent or zero, and
\* Population, Waste and Cost are those of the record.
ZeroOrNaN(x) == IsNaN(x) \/ (IsFin(x) /\ x.n = 0)

C2_AbsentOnBadDenominator ==
    \A i \in 1..Len(summary) :
        /\ ZeroOrNaN(summary[i].Population)
              => IsNaN(summary[i].Waste_per_Capita_g)
                 /\ IsNaN(summary[i].Cost_per_Capita_Yen)
        /\ ZeroOrNaN(summary[i].Waste) => IsNaN(summary[i].Cost_per_Ton_Yen)
        /\ summary[i].Population = all_records[i].Population
        /\ summary[i].Waste = all_records[i].Waste
        /\ summary[i].Cost = all_records[i].Cost

\* The extractor of city hit an exception on its table.
Failed(city) ==
    CASE city = "kanazawa" ->
           KanazawaRaises(df[city],
                          ConvertAll(df[city], 1, KanazawaDataCols(df[city])),
                          ConvertAll(df[city], 1, KanazawaCostCols(df[city])))
      [] city = "sakai" ->
           SakaiRaises(df[city],
                       ConvertAll(df[city], 1, SakaiWasteCols(df[city])),
                       ConvertAll(df[city], 1, SakaiCostCols(df[city])))
      [] city = "toyama" ->
           \/ ToyamaRightRaises(df[city], RowYears(df[city], ToyamaRows(df[city]), 7))
           \/ AnyRaise(RowYears(df[city], ToyamaRows(df[city]), 0))
      [] city = "chiba" -> ChibaRaises(df[city], Markers(df[city]))

\* C3 (as claimed): an extractor that hit an exception contributes no
\* record at all.
C3_FailureGivesNoRecords ==
    \A city \in Cities : Ran(city) /\ Failed(city) => RecordsOf(city) = <<>>

\* Era texts as the claim describes them: the marker, the number (or the
\* first-year token), an optional year suffix.
MaxEraYear == 31
EraText(marker, body) == {marker \o body, marker \o body \o Nen}
Returned == pc = "returned"
InText == Strip(year_in.s)

\* What remains of an era text without marker and suffix, and whether that
\* is an integer literal: an optional sign and decimal digits.
Remainder(marker) == Strip(Replace(Replace(InText, marker), Nen))
IsIntLiteral(s) ==
    \E k \in 0..1 :
        /\ Len(s) > k
        /\ (k = 1 => s[1] \in {"+", "-"})
        /\ \A i \in (k + 1)..Len(s) : s[i] \in AsciiDigits

HeiseiTexts == [n \in 1..MaxEraYear |-> EraText(Heisei, NatToStr(n))]
ReiwaTexts == [n \in 1..MaxEraYear |-> EraText(Reiwa, NatToStr(n))]

\* C4: a Heisei-n text gives 1988 + n, a Reiwa-n text 2018 + n, the Reiwa
\* first-year text 2019; an era text whose remainder is no integer (for
\* Reiwa: nor the first-year token) gives None; no era text raises.
C4_EraYears ==
    Returned /\ year_in.k = "str" =>
        /\ \A n \in 1..MaxEraYear :
              /\ InText \in HeiseiTexts[n] => year_out = Year(1988 + n)
              /\ InText \in ReiwaTexts[n] => year_out = Year(2018 + n)
        /\ InText \in EraText(Reiwa, Gan) => year_out = Year(2019)
        /\ StartsWith(InText, Heisei) /\ ~IsIntLiteral(Remainder(Heisei))
              => year_out = None
        /\ StartsWith(InText, Reiwa) /\ ~IsIntLiteral(Remainder(Reiwa))
              /\ Remainder(Reiwa) # Gan
              => year_out = None
        /\ StartsWith(InText, Heisei) \/ StartsWith(InText, Reiwa)
              => year_out.t # "raise"

\* C4 witness: Heisei 2 with the year suffix came back as 1990, or Heisei
\* followed by the first-year token came back as None.
C4_Witness ==
    /\ Returned
    /\ \/ year_in = StrCell(<<"hei", "sei", "2", "nen">>) /\ year_out = Year(1990)
       \/ year_in = StrCell(<<"hei", "sei", "gan">>) /\ year_out = None

\* C5 (as claimed): convert_year never raises and returns None or a
\* 4-digit year.
C5_NoneOrFourDigits ==
    Returned =>
        \/ year_out = None
        \/ (year_out.t = "int" /\ year_out.v >= 1000 /\ year_out.v <= 9999)

\* The cost axis of the Sakai table, read off the table: the columns
\* labelled y, their per-capita divisor and their annual cost.
SakaiLabelled(t, y) ==
    {c \in 19..(t.ncols - 1) : convert_year(Cell(t, 1, c)) = Year(y)}
SakaiWasteLabelled(t, y) ==
    {c \in 1..15 : c < t.ncols /\ convert_year(Cell(t, 1, c)) = Year(y)}
Divisor(t, c) == clean_num(Cell(t, 9, c))
AnnualCost(t, c) == clean_num(Cell(t, 7, c))
StrictlyPositive(x) == (IsFin(x) /\ x.n > 0) \/ (x.t = "inf" /\ x.s > 0)

OneOf(x, S) == IF S = {} THEN IsNaN(x) ELSE x \in S

\* C6: a Sakai record of a year whose divisor is absent, zero or negative
\* has absent Population, and its Waste and Cost are cells of that year; a
\* present Population is cost x 1000 / divisor of a column of that year
\* with a strictly positive divisor; a year whose columns all have a
\* positive divisor and a cost keeps its Population whatever the other
\* years hold; every year of the cost axis has a record.
C6_SakaiDivisorGuard ==
    Ran("sakai") =>
        /\ \A i \in 1..Len(RecordsOf("sakai")) :
            LET r == RecordsOf("sakai")[i]
                cols == SakaiLabelled(df["sakai"], r.Year)
            IN  /\ (\A c \in cols : ~StrictlyPositive(Divisor(df["sakai"], c)))
                      => IsNaN(r.Population)
                /\ OneOf(r.Cost, {AnnualCost(df["sakai"], c) : c \in cols})
                /\ OneOf(r.Waste, {clean_num(Cell(df["sakai"], 2, c)) :
                                      c \in SakaiWasteLabelled(df["sakai"], r.Year)})
                /\ ~IsNaN(r.Population) =>
                      \E c \in cols :
                          /\ StrictlyPositive(Divisor(df["sakai"], c))
                          /\ r.Population
                               = NpDiv(FMul(AnnualCost(df["sakai"], c), Num(1000)),
                                       Divisor(df["sakai"], c))
                /\ (cols # {} /\ \A c \in cols :
                        /\ StrictlyPositive(Divisor(df["sakai"], c))
                        /\ ~IsNaN(AnnualCost(df["sakai"], c)))
                      => ~IsNaN(r.Population)
        /\ ~Failed("sakai") =>
              AxisYears(df["sakai"], 1, 19..(df["sakai"].ncols - 1))
                  \subseteq YearsIn(RecordsOf("sakai"))

\* C6 witness: one record lost its Population to a zero divisor and kept
\* its Cost, another year's record has its Population.
C6_Witness ==
    /\ Ran("sakai")
    /\ \E i, j \in 1..Len(RecordsOf("sakai")) :
          /\ IsNaN(RecordsOf("sakai")[i].Population)
          /\ ~IsNaN(RecordsOf("sakai")[i].Cost)
          /\ \E c \in SakaiLabelled(df["sakai"], RecordsOf("sakai")[i].Year) :
                Divisor(df["sakai"], c) = Num(0)
          /\ ~IsNaN(RecordsOf("sakai")[j].Population)

\* The year markers of the Chiba table, read off the table: the rows whose
\* first cell reads as four digits forming a number above 2000.
MarkerTexts == {NatToStr(y) : y \in 2001..9999}
ChibaMarkerRows(t) ==
    {i \in 0..(t.nrows - 1) : Strip(PyStr(Cell(t, i, 0))) \in MarkerTexts}
ChibaYear(t, i) == DecVal(Strip(PyStr(Cell(t, i, 0))))

\* The record the claim describes for the marker in row i.
ChibaExpected(t, i) ==
    Rec("chiba", ChibaYear(t, i),
        IF ChibaYear(t, i) \in 2010..2022 THEN Num(chiba_pop[ChibaYear(t, i)]) ELSE NaN,
        clean_num(Cell(t, i + 10, 11)),
        IF IsNaN(clean_num(Cell(t, i + 10, 6))) THEN NaN
        ELSE NpDiv(clean_num(Cell(t, i + 10, 6)), Num(1000)))

RECURSIVE Ascending(_)
Ascending(S) ==
    IF S = {} THEN <<>>
    ELSE LET m == CHOOSE x \in S : \A y \in S : x <= y
         IN  <<m>> \o Ascending(S \ {m})

\* C7 (as claimed): every year marker yields a record, with absent
\* Population outside 2010-2022 and the table's value inside, Waste and
\* Cost from the row 10 below.  Stated for tables the extractor reads
\* without an exception.
C7_EveryMarkerYieldsRecord ==
    Ran("chiba") /\ ~Failed("chiba") =>
        \A i \in ChibaMarkerRows(df["chiba"]) :
            \E k \in 1..Len(RecordsOf("chiba")) :
                /\ RecordsOf("chiba")[k].Year = ChibaYear(df["chiba"], i)
                /\ IsNaN(RecordsOf("chiba")[k].Population)
                      = (ChibaYear(df["chiba"], i) \notin 2010..2022)

\* C7 (amended): the records are, in order, those of the year markers whose
\* row 10 below exists; a marker closer than 10 rows to the end of the
\* table yields none, and a table the extractor raises on yields none at
\* all.
C7_MarkersWithTargetRow ==
    Ran("chiba") =>
        IF Failed("chiba") THEN RecordsOf("chiba") = <<>>
        ELSE LET hits == Ascending({i \in ChibaMarkerRows(df["chiba"]) :
                                       i + 10 < df["chiba"].nrows})
             IN  /\ Len(RecordsOf("chiba")) = Len(hits)
                 /\ \A k \in 1..Len(hits) :
                       RecordsOf("chiba")[k] = ChibaExpected(df["chiba"], hits[k])

\* C7 witness: a marker of a year outside the table has its record, with
\* absent Population and a Cost, and a marker of 2022 has the population of
\* the table.
C7_Witness ==
    /\ Ran("chiba")
    /\ \E k, m \in 1..Len(RecordsOf("chiba")) :
          /\ RecordsOf("chiba")[k].Year = 2023
          /\ IsNaN(RecordsOf("chiba")[k].Population)
          /\ RecordsOf("chiba")[k].Cost = Num(5)
          /\ RecordsOf("chiba")[m].Year = 2022
          /\ RecordsOf("chiba")[m].Population = Num(975268)

\* C8 (as claimed, its year-set part): without an exception, the years of
\* the records of Kanazawa, Sakai and Toyama are the years of both axes.
C8_YearsAreUnion ==
    /\ Ran("kanazawa") /\ ~Failed("kanazawa") =>
          YearsIn(RecordsOf("kanazawa"))
            = AxisYears(df["kanazawa"], 1, 21..(df["kanazawa"].ncols - 1))
              \cup AxisYears(df["kanazawa"], 1, {c \in 3..17 : c < df["kanazawa"].ncols})
    /\ Ran("sakai") /\ ~Failed("sakai") =>
          YearsIn(RecordsOf("sakai"))
            = AxisYears(df["sakai"], 1, {c \in 1..15 : c < df["sakai"].ncols})
              \cup AxisYears(df["sakai"], 1, 19..(df["sakai"].ncols - 1))
    /\ Ran("toyama") /\ ~Failed("toyama") =>
          YearsIn(RecordsOf("toyama"))
            = UNION {AxisYears(df["toyama"], i, {0}) \cup AxisYears(df["toyama"], i, {7}) :
                        i \in 3..(df["toyama"].nrows - 1)}

\* C9 (as claimed): a Kanazawa record whose year labels exactly one cost
\* column has absent Cost exactly when the three components of that column
\* are all absent.
C9_CostAbsentIffAllAbsent ==
    Ran("kanazawa") =>
        \A i \in 1..Len(RecordsOf("kanazawa")) :
            \A c \in {x \in 3..17 : x < df["kanazawa"].ncols} :
                /\ convert_year(Cell(df["kanazawa"], 1, c))
                      = Year(RecordsOf("kanazawa")[i].Year)
                /\ Cardinality({x \in 3..17 :
                        /\ x < df["kanazawa"].ncols
                        /\ convert_year(Cell(df["kanazawa"], 1, x))
                              = Year(RecordsOf("kanazawa")[i].Year)}) = 1
                => (IsNaN(RecordsOf("kanazawa")[i].Cost)
                      <=> \A r \in {2, 5, 8} :
                              IsNaN(clean_num(Cell(df["kanazawa"], r, c))))

\* C10 (as claimed): a present Population of a Sakai record is the record's
\* own Cost x 1000 over the divisor of the column that Cost was read from.
C10_PopulationFromOwnCost ==
    Ran("sakai") =>
        \A i \in 1..Len(RecordsOf("sakai")) :
            ~IsNaN(RecordsOf("sakai")[i].Population) =>
                \E c \in SakaiLabelled(df["sakai"], RecordsOf("sakai")[i].Year) :
                    /\ AnnualCost(df["sakai"], c) = RecordsOf("sakai")[i].Cost
                    /\ RecordsOf("sakai")[i].Population
                         = NpDiv(FMul(RecordsOf("sakai")[i].Cost, Num(1000)),
                                 Divisor(df["sakai"], c))

====
